---- MODULE Spec2Model ----
(***************************************************************************)
(* Model of virt-bridge-setup.py: the NMManager class (device selection,   *)
(* connection lookup, bridge creation with cleanup and rollback, delete,   *)
(* activate, deactivate) and the command handlers of main() and of the     *)
(* interactive shell, against a model of the NetworkManager service.       *)
(*                                                                         *)
(* Strings are sequences of code points, so that equality, startswith()    *)
(* and sorted() are computed the way Python computes them.                 *)
(***************************************************************************)
EXTENDS Integers, Sequences, FiniteSets, TLC

VARIABLES
    devices,    \* the service's devices, in GetAllDevices() order
    store,      \* the persisted profiles, in ListConnections() order
    active,     \* the service's ActiveConnections, in order
    fresh,      \* how many fresh names (object paths, UUIDs) were drawn
    locals,     \* add_bridge_connection's bridge_uuid and bridge_settings
    pc,         \* position of the running command
    req,        \* the arguments of the running command
    calls,      \* the mutating service calls issued by the running command
    store0,     \* the persisted profiles when the command started
    active0,    \* the active connections when the command started
    out,        \* what the command reported: exit code, listings, errors
    selected,   \* the result of select_default_slave_interface
    candidates, \* the result of get_slave_candidates
    bridge_views \* the result of find_existing_bridges

vars == <<devices, store, active, fresh, locals, pc, req, calls, store0, active0,
          out, selected, candidates, bridge_views>>

----------------------------------------------------------------------------
(* Bounds of the model *)

MaxDevices == 3        \* devices enumerated by the service (selector runs)
MaxInitProfiles == 2   \* profiles persisted before the command starts
MaxBridgeProfiles == 3 \* profiles persisted when the bridges are listed

----------------------------------------------------------------------------
(* Strings *)

S_lo     == <<108, 111>>
S_lo1    == <<108, 111, 49>>
S_eth0   == <<101, 116, 104, 48>>
S_eth1   == <<101, 116, 104, 49>>
S_eth9   == <<101, 116, 104, 57>>
S_wlan0  == <<119, 108, 97, 110, 48>>
S_wlan1  == <<119, 108, 97, 110, 49>>
S_br0    == <<98, 114, 48>>
S_Br0    == <<66, 114, 48>>
S_br     == <<98, 114>>
S_tun0   == <<116, 117, 110, 48>>
S_virbr  == <<118, 105, 114, 98, 114>>
S_vnet   == <<118, 110, 101, 116>>
S_docker == <<100, 111, 99, 107, 101, 114>>
S_p2pdev == <<112, 50, 112, 45, 100, 101, 118, 45>>
S_port   == <<45, 112, 111, 114, 116, 45>>
S_zero   == <<48>>

\* str.startswith
StartsWith(s, p) ==
    /\ Len(p) <= Len(s)
    /\ \A i \in 1..Len(p) : s[i] = p[i]

MinOf(a, b) == IF a <= b THEN a ELSE b

\* Python's < on str: by code point, a proper prefix is smaller
StrLess(a, b) ==
    \E i \in 1..(MinOf(Len(a), Len(b)) + 1) :
        /\ \A j \in 1..(i - 1) : a[j] = b[j]
        /\ \/ i > Len(a) /\ i <= Len(b)
           \/ i <= Len(a) /\ i <= Len(b) /\ a[i] < b[i]

\* list.sort() / sorted() on a list of str: a stable insertion
RECURSIVE InsertSorted(_, _)
InsertSorted(x, s) ==
    IF s = <<>> THEN <<x>>
    ELSE IF StrLess(x, Head(s)) THEN <<x>> \o s
    ELSE <<Head(s)>> \o InsertSorted(x, Tail(s))

\* a selector that forgets to sort
Sorted_Unsorted(s) == s

RECURSIVE Sorted(_)
Sorted(s) ==
    IF s = <<>> THEN <<>>
    ELSE InsertSorted(s[Len(s)], Sorted(SubSeq(s, 1, Len(s) - 1)))

\* Optional[...]: None is the empty sequence, a value v is <<v>>
None == <<>>
Some(v) == <<v>>

----------------------------------------------------------------------------
(* Devices *)

TypeEthernet == 1
TypeWifi == 2
TypeBridge == 5
TypeTun == 9

NoIp4Config == "/"

Dev(iface, type, ip4path, addrs, hw) ==
    [Interface |-> iface, DeviceType |-> type, Ip4Config |-> ip4path,
     Addresses |-> addrs, HwAddress |-> hw]

Addr1 == <<<<16885952, 24, 0>>>>
\* "00:1A:2B" and "DE:AD:BE"
MacA == <<48, 48, 58, 49, 65, 58, 50, 66>>
MacB == <<68, 69, 58, 65, 68, 58, 66, 69>>

DeviceUniverse ==
    { Dev(S_eth0, TypeEthernet, "/", <<>>, MacA),
      Dev(S_eth0, TypeEthernet, "/ip4/1", Addr1, MacA),
      Dev(S_eth1, TypeEthernet, "/ip4/2", Addr1, MacB),
      Dev(S_eth1, TypeEthernet, "/ip4/2", <<>>, MacB),
      Dev(S_wlan0, TypeWifi, "/ip4/3", Addr1, MacB),
      Dev(S_wlan0, TypeWifi, "/", <<>>, MacB),
      Dev(S_wlan1, TypeWifi, "/", <<>>, MacA),
      Dev(S_lo, TypeEthernet, "/ip4/4", Addr1, <<>>),
      Dev(S_lo1, TypeEthernet, "/ip4/5", Addr1, MacA),
      Dev(S_br0, TypeBridge, "/ip4/6", Addr1, MacA),
      Dev(S_virbr \o S_zero, TypeEthernet, "/ip4/7", Addr1, MacA),
      Dev(S_vnet \o S_zero, TypeEthernet, "/ip4/8", Addr1, MacA),
      Dev(S_docker \o S_zero, TypeEthernet, "/ip4/9", Addr1, MacA),
      Dev(S_p2pdev \o S_wlan0, TypeWifi, "/ip4/10", Addr1, MacA),
      Dev(S_tun0, TypeTun, "/ip4/11", Addr1, <<>>) }

\* device lists of at most n devices with distinct interface names
DeviceLists(n) ==
    UNION { { s \in [1..k -> DeviceUniverse] :
                \A i, j \in 1..k : i # j => s[i].Interface # s[j].Interface }
            : k \in 0..n }

IgnoredPrefixesSelect == {S_virbr, S_vnet, S_docker, S_p2pdev}

\* line 90: the devices the selector skips
SelectSkips(d) ==
    \/ d.Interface = S_lo
    \/ d.DeviceType = TypeBridge
    \/ \E p \in IgnoredPrefixesSelect : StartsWith(d.Interface, p)

\* lines 93-99
HasIp(d) == d.Ip4Config # NoIp4Config /\ d.Addresses # <<>>

EmptyLists ==
    [eth_with_ip |-> <<>>, eth_without_ip |-> <<>>,
     wifi_with_ip |-> <<>>, wifi_without_ip |-> <<>>]

\* one iteration of the for loop of lines 84-104
SelectStep(lists, d) ==
    IF SelectSkips(d) THEN lists
    ELSE IF d.DeviceType = TypeEthernet THEN
        IF HasIp(d)
        THEN [lists EXCEPT !.eth_with_ip = Append(@, d.Interface)]
        ELSE [lists EXCEPT !.eth_without_ip = Append(@, d.Interface)]
    ELSE IF d.DeviceType = TypeWifi THEN
        IF HasIp(d)
        THEN [lists EXCEPT !.wifi_with_ip = Append(@, d.Interface)]
        ELSE [lists EXCEPT !.wifi_without_ip = Append(@, d.Interface)]
    ELSE lists

RECURSIVE SelectLoop(_, _)
SelectLoop(lists, devs) ==
    IF devs = <<>> THEN lists
    ELSE SelectLoop(SelectStep(lists, Head(devs)), Tail(devs))

CategoryOrder ==
    <<"eth_with_ip", "wifi_with_ip", "eth_without_ip", "wifi_without_ip">>

\* a selector that prefers any Ethernet device to a Wi-Fi device
CategoryOrder_EthFirst ==
    <<"eth_with_ip", "eth_without_ip", "wifi_with_ip", "wifi_without_ip">>

RECURSIVE PickCategory_EthFirst(_, _)
PickCategory_EthFirst(lists, i) ==
    IF i > Len(CategoryOrder_EthFirst) THEN None
    ELSE IF lists[CategoryOrder_EthFirst[i]] # <<>>
         THEN Some(Sorted(lists[CategoryOrder_EthFirst[i]])[1])
         ELSE PickCategory_EthFirst(lists, i + 1)

\* lines 110-117: the first non-empty category, its smallest name
RECURSIVE PickCategory(_, _)
PickCategory(lists, i) ==
    IF i > Len(CategoryOrder) THEN None
    ELSE IF lists[CategoryOrder[i]] # <<>>
         THEN Some(Sorted(lists[CategoryOrder[i]])[1])
         ELSE PickCategory(lists, i + 1)

select_default_slave_interface(devs) ==
    PickCategory(SelectLoop(EmptyLists, devs), 1)

IgnoredPrefixesCandidates == {S_lo, S_virbr, S_vnet, S_docker, S_p2pdev}

\* lines 130-134
CandidateSkips(d) ==
    \/ d.DeviceType \notin {TypeEthernet, TypeWifi}
    \/ d.DeviceType = TypeBridge
    \/ \E p \in IgnoredPrefixesCandidates : StartsWith(d.Interface, p)

RECURSIVE CandidateLoop(_, _)
CandidateLoop(acc, devs) ==
    IF devs = <<>> THEN acc
    ELSE CandidateLoop(IF CandidateSkips(Head(devs)) THEN acc
                       ELSE Append(acc, Head(devs).Interface), Tail(devs))

get_slave_candidates(devs) == Sorted(CandidateLoop(<<>>, devs))

----------------------------------------------------------------------------
(* The service: persisted profiles and active connections *)

NoPath == 0

\* a UUID no profile has yet (uuid.uuid4()), from a counter
Uuid(n) == <<117, 48 + n>>

Conn(id, uuid, type, ifname) ==
    [id |-> id, uuid |-> uuid, type |-> type] @@ ("interface-name" :> ifname)

Slave(master) == [master |-> master] @@ ("slave-type" :> "bridge")

Profile(path, connection, bridge) ==
    [path |-> path, connection |-> connection, bridge |-> bridge]

S_slave0 == S_br0 \o S_port \o S_eth0

\* the profiles a store may hold before the command starts
ProfileUniverse ==
    { Profile(1, Conn(S_br0, Uuid(1), "bridge", S_br0), [stp |-> TRUE]),
      Profile(2, Conn(S_slave0, Uuid(2), "802-3-ethernet", S_eth0)
                   @@ Slave(Uuid(1)), <<>>),
      Profile(3, Conn(S_br0, Uuid(3), "802-3-ethernet", S_eth1), <<>>),
      Profile(4, Conn(S_Br0, Uuid(4), "802-11-wireless", S_wlan0), <<>>),
      Profile(5, Conn(S_slave0, Uuid(5), "802-3-ethernet", S_eth0)
                   @@ Slave(Uuid(3)), <<>>) }

FirstFresh == Cardinality(ProfileUniverse) + 1

InitStores(n) ==
    UNION { { s \in [1..k -> ProfileUniverse] :
                \A i, j \in 1..k : i # j => s[i] # s[j] } : k \in 0..n }

Active(ac, path) == [ac |-> ac, Connection |-> path]

RECURSIVE Reverse(_)
Reverse(s) == IF s = <<>> THEN <<>> ELSE Append(Reverse(Tail(s)), Head(s))

\* the connections that may be active before the command starts: none, or
\* one on every profile, listed in the profiles' order or against it
InitActives(st) ==
    LET all == [i \in 1..Len(st) |-> Active(st[i].path, st[i].path)]
    IN {<<>>, all, Reverse(all)}

ProfileAt(st, path) ==
    LET i == CHOOSE i \in 1..Len(st) : st[i].path = path IN st[i]

\* Settings.Connection.Delete(): the profile goes, and with it the
\* connections active on it
\* a Delete that removes whichever profile is enumerated first
SvcDeleteStore_First(st, path) == Tail(st)

SvcDeleteStore(st, path) == SelectSeq(st, LAMBDA p : p.path # path)
SvcDeleteActive(act, path) == SelectSeq(act, LAMBDA a : a.Connection # path)

\* Settings.AddConnection(): the profile is enumerated at position pos
SvcAdd(st, profile, pos) ==
    SubSeq(st, 1, pos - 1) \o <<profile>> \o SubSeq(st, pos, Len(st))

\* where ListConnections() may enumerate a new profile: the service keeps no
\* documented order, and a lookup by name depends only on whether the new
\* profile comes before or after the profiles already there
InsertPositions(st) == {1, Len(st) + 1}

\* a mutating call on the service: its argument (an object path as <<path>>,
\* or the id of the settings submitted) and whether the service accepted it
Call(op, arg, ok) == [op |-> op, arg |-> arg, ok |-> ok]

----------------------------------------------------------------------------
(* NMManager: lookup and delete *)

\* a lookup that accepts a profile whose identifier merely starts with the name
RECURSIVE find_connection_Prefix(_, _)
find_connection_Prefix(st, name_or_uuid) ==
    IF st = <<>> THEN NoPath
    ELSE IF StartsWith(Head(st).connection.id, name_or_uuid)
            \/ name_or_uuid = Head(st).connection.uuid
         THEN Head(st).path
         ELSE find_connection_Prefix(Tail(st), name_or_uuid)

\* a lookup that keeps scanning and returns the last match
RECURSIVE find_connection_Last(_, _)
find_connection_Last(st, name_or_uuid) ==
    IF st = <<>> THEN NoPath
    ELSE LET rest == find_connection_Last(Tail(st), name_or_uuid)
         IN IF rest # NoPath THEN rest
            ELSE IF name_or_uuid = Head(st).connection.id
                    \/ name_or_uuid = Head(st).connection.uuid
                 THEN Head(st).path
                 ELSE NoPath

\* lines 434-450
RECURSIVE find_connection(_, _)
find_connection(st, name_or_uuid) ==
    IF st = <<>> THEN NoPath
    ELSE IF name_or_uuid = Head(st).connection.id
            \/ name_or_uuid = Head(st).connection.uuid
         THEN Head(st).path
         ELSE find_connection(Tail(st), name_or_uuid)

\* lines 567-580: list_connections() prints the table once more
list_connections(w) == [w EXCEPT !.out.listed = @ + 1]

Log(w, msg) == [w EXCEPT !.out.log = @ \cup {msg}]

\* a delete that does not look at the dry-run flag
delete_connection_IgnoresDryRun(w, name_or_uuid, show_list, dry_run, fails) ==
    LET path == find_connection(w.store, name_or_uuid) IN
    IF path # NoPath THEN
        IF fails THEN
            Log([w EXCEPT !.calls = Append(@, Call("Delete", <<path>>, FALSE))],
                "Error deleting connection")
        ELSE
            Log([w EXCEPT !.store = SvcDeleteStore(@, path),
                          !.active = SvcDeleteActive(@, path),
                          !.calls = Append(@, Call("Delete", <<path>>, TRUE))],
                "Successfully deleted connection")
    ELSE
        IF show_list
        THEN list_connections(Log(w, "not found to delete"))
        ELSE Log(w, "not found to delete")

\* lines 452-474; fails: the service refuses the Delete call
delete_connection(w, name_or_uuid, show_list, dry_run, fails) ==
    LET path == find_connection(w.store, name_or_uuid) IN
    IF path # NoPath THEN
        IF dry_run THEN Log(w, "DRY-RUN: Would delete connection")
        ELSE IF fails THEN
            Log([w EXCEPT !.calls = Append(@, Call("Delete", <<path>>, FALSE))],
                "Error deleting connection")
        ELSE
            Log([w EXCEPT !.store = SvcDeleteStore(@, path),
                          !.active = SvcDeleteActive(@, path),
                          !.calls = Append(@, Call("Delete", <<path>>, TRUE))],
                "Successfully deleted connection")
    ELSE
        IF show_list
        THEN list_connections(Log(w, "not found to delete"))
        ELSE Log(w, "not found to delete")

\* an activation that tries a refused call a second time
activate_connection_Retry(w, name_or_uuid, dry_run, fails, ac) ==
    LET conn_path == find_connection(w.store, name_or_uuid) IN
    IF conn_path = NoPath
    THEN list_connections(Log(w, "not found to activate"))
    ELSE IF dry_run THEN Log(w, "Activation command sent")
    ELSE IF fails THEN
        Log([w EXCEPT !.calls =
                 @ \o <<Call("ActivateConnection", <<conn_path>>, FALSE),
                        Call("ActivateConnection", <<conn_path>>, FALSE)>>],
            "Error activating connection")
    ELSE
        Log([w EXCEPT !.active = Append(SvcDeleteActive(@, conn_path),
                                        Active(ac, conn_path)),
                      !.calls =
                 Append(@, Call("ActivateConnection", <<conn_path>>, TRUE))],
            "Activation command sent")

\* lines 476-494; fails: the service refuses the ActivateConnection call
activate_connection(w, name_or_uuid, dry_run, fails, ac) ==
    LET conn_path == find_connection(w.store, name_or_uuid) IN
    IF conn_path = NoPath
    THEN list_connections(Log(w, "not found to activate"))
    ELSE IF dry_run THEN Log(w, "Activation command sent")
    ELSE IF fails THEN
        Log([w EXCEPT !.calls =
                 Append(@, Call("ActivateConnection", <<conn_path>>, FALSE))],
            "Error activating connection")
    ELSE
        Log([w EXCEPT !.active = Append(SvcDeleteActive(@, conn_path),
                                        Active(ac, conn_path)),
                      !.calls =
                 Append(@, Call("ActivateConnection", <<conn_path>>, TRUE))],
            "Activation command sent")

\* a scan without the break of line 527: the last match wins
RECURSIVE ScanActive_Last(_, _, _)
ScanActive_Last(act, st, name_or_uuid) ==
    IF act = <<>> THEN None
    ELSE LET rest == ScanActive_Last(Tail(act), st, name_or_uuid)
         IN IF rest # None THEN rest
            ELSE IF ProfileAt(st, Head(act).Connection).connection.id
                        = name_or_uuid
                 THEN Some(Head(act).ac)
                 ELSE None

\* lines 505-527: the first active connection whose profile has this id
RECURSIVE ScanActive(_, _, _)
ScanActive(act, st, name_or_uuid) ==
    IF act = <<>> THEN None
    ELSE IF ProfileAt(st, Head(act).Connection).connection.id = name_or_uuid
         THEN Some(Head(act).ac)
         ELSE ScanActive(Tail(act), st, name_or_uuid)

\* lines 496-542; fails: the service refuses the DeactivateConnection call
deactivate_connection(w, name_or_uuid, dry_run, fails) ==
    LET found == ScanActive(w.active, w.store, name_or_uuid) IN
    IF found # None THEN
        IF dry_run THEN Log(w, "Successfully deactivated")
        ELSE IF fails THEN
            Log([w EXCEPT !.calls =
                     Append(@, Call("DeactivateConnection", found, FALSE))],
                "Error deactivating connection")
        ELSE
            Log([w EXCEPT !.active = SelectSeq(@, LAMBDA a : a.ac # found[1]),
                          !.calls =
                     Append(@, Call("DeactivateConnection", found, TRUE))],
                "Successfully deactivated")
    ELSE list_connections(Log(w, "is not active or could not be found"))

\* a check that accepts any interface
check_interface_exist_Always(devs, interface) == TRUE

\* lines 582-602
check_interface_exist(devs, interface) ==
    IF devs = <<>> THEN FALSE
    ELSE \E i \in 1..Len(devs) : interface = Some(devs[i].Interface)

\* lines 416-432
RECURSIVE get_mac_address(_, _)
get_mac_address(devs, iface_name) ==
    IF devs = <<>> THEN None
    ELSE IF Head(devs).Interface = iface_name /\ Head(devs).HwAddress # <<>>
         THEN Some(Head(devs).HwAddress)
         ELSE get_mac_address(Tail(devs), iface_name)

----------------------------------------------------------------------------
(* Hardware addresses: "AA:BB:CC" <-> bytes *)

Colon == 58

\* int(c, 16) of one hexadecimal digit
HexDigit(c) ==
    IF c >= 48 /\ c <= 57 THEN c - 48
    ELSE IF c >= 65 /\ c <= 70 THEN c - 55
    ELSE c - 87

RECURSIVE HexValue(_, _)
HexValue(s, acc) ==
    IF s = <<>> THEN acc ELSE HexValue(Tail(s), acc * 16 + HexDigit(Head(s)))

\* mac_address.split(':')
RECURSIVE Split(_, _, _)
Split(s, cur, acc) ==
    IF s = <<>> THEN Append(acc, cur)
    ELSE IF Head(s) = Colon THEN Split(Tail(s), <<>>, Append(acc, cur))
    ELSE Split(Tail(s), Append(cur, Head(s)), acc)

\* line 296
mac_bytes_of(mac_address) ==
    LET parts == Split(mac_address, <<>>, <<>>) IN
    [i \in 1..Len(parts) |-> HexValue(parts[i], 0)]

\* a formatting with lower-case digits, f'{b:02x}'
HexChar_Lower(v) == IF v < 10 THEN 48 + v ELSE 87 + v

\* one digit of f'{b:02X}'
HexChar(v) == IF v < 10 THEN 48 + v ELSE 55 + v

RECURSIVE JoinBytes(_)
JoinBytes(bytes) ==
    IF bytes = <<>> THEN <<>>
    ELSE <<HexChar(Head(bytes) \div 16), HexChar(Head(bytes) % 16)>>
         \o (IF Tail(bytes) = <<>> THEN <<>> ELSE <<Colon>>)
         \o JoinBytes(Tail(bytes))

S_NotSet == <<78, 111, 116, 32, 115, 101, 116>>

\* lines 197-199
format_mac(mac_bytes) ==
    IF mac_bytes # <<>> THEN JoinBytes(mac_bytes) ELSE S_NotSet

----------------------------------------------------------------------------
(* NMManager.find_existing_bridges *)

\* dict.get(key, default)
Get(d, k, default) == IF k \in DOMAIN d THEN d[k] ELSE default

\* lines 186-202
bridge_settings_view(bridge_config) ==
    [stp |-> IF Get(bridge_config, "stp", TRUE) THEN "Yes" ELSE "No",
     priority |-> IF "priority" \in DOMAIN bridge_config
                  THEN Some(bridge_config["priority"]) ELSE None,
     forward_delay |-> IF "forward-delay" \in DOMAIN bridge_config
                       THEN Some(bridge_config["forward-delay"]) ELSE None,
     multicast_snooping |->
         IF Get(bridge_config, "multicast-snooping", TRUE) THEN "Yes" ELSE "No",
     mac_address |-> format_mac(Get(bridge_config, "mac-address", <<>>)),
     vlan_filtering |->
         IF Get(bridge_config, "vlan-filtering", FALSE) THEN "Yes" ELSE "No",
     vlan_default_pvid |-> IF "vlan-default-pvid" \in DOMAIN bridge_config
                           THEN Some(bridge_config["vlan-default-pvid"])
                           ELSE None]

\* lines 169-176
bridge_details(config) ==
    [id |-> config.connection.id,
     uuid |-> config.connection.uuid,
     interface_name |-> config.connection["interface-name"],
     slaves |-> <<>>,
     bridge_settings |-> bridge_settings_view(config.bridge)]

\* line 203: bridges_by_uuid[conn_uuid] = bridge_details
PutBridge(bridges, details) ==
    IF \E i \in 1..Len(bridges) : bridges[i].uuid = details.uuid
    THEN [i \in 1..Len(bridges) |->
             IF bridges[i].uuid = details.uuid THEN details ELSE bridges[i]]
    ELSE Append(bridges, details)

\* a grouping that keeps only the last slave of each master
PutSlave_Overwrite(slaves, master_uuid, config) ==
    LET slave_details == [iface |-> config.connection["interface-name"],
                          conn_id |-> config.connection.id]
    IN (master_uuid :> <<slave_details>>) @@ slaves

\* lines 209-215
PutSlave(slaves, master_uuid, config) ==
    LET slave_details == [iface |-> config.connection["interface-name"],
                          conn_id |-> config.connection.id]
    IN IF master_uuid \in DOMAIN slaves
       THEN [slaves EXCEPT ![master_uuid] = Append(@, slave_details)]
       ELSE (master_uuid :> <<slave_details>>) @@ slaves

\* lines 161-215: the single pass over all profiles
RECURSIVE ClassifyPass(_, _)
ClassifyPass(st, acc) ==
    IF st = <<>> THEN acc
    ELSE LET config == Head(st)
             conn_settings == config.connection
         IN ClassifyPass(Tail(st),
              IF conn_settings.type = "bridge" THEN
                  IF conn_settings.uuid = <<>> THEN acc
                  ELSE [acc EXCEPT !.bridges = PutBridge(@, bridge_details(config))]
              ELSE IF Get(conn_settings, "slave-type", "") = "bridge" THEN
                  IF Get(conn_settings, "master", <<>>) = <<>> THEN acc
                  ELSE [acc EXCEPT !.slaves =
                            PutSlave(@, conn_settings.master, config)]
              ELSE acc)

\* lines 141-222
find_existing_bridges(st) ==
    LET acc == ClassifyPass(st, [bridges |-> <<>>, slaves |-> <<>>])
    IN [i \in 1..Len(acc.bridges) |->
           IF acc.bridges[i].uuid \in DOMAIN acc.slaves
           THEN [acc.bridges[i] EXCEPT !.slaves = acc.slaves[acc.bridges[i].uuid]]
           ELSE acc.bridges[i]]

----------------------------------------------------------------------------
(* Commands and their arguments *)

NoLocals == [bridge_uuid |-> <<>>, bridge_settings |-> <<>>]

NoOut == [exit |-> None, listed |-> 0, log |-> {}]

\* argparse defaults: lines 909-982 (main) and 739-758 (shell)
Req(command, shell, name, slave, ranges, dry_run, force) ==
    [command |-> command, shell |-> shell, name |-> name,
     conn_name |-> S_br0, bridge_ifname |-> S_br0,
     slave_arg |-> slave, slave_interface |-> slave,
     stp |-> "yes", multicast_snooping |-> "yes", vlan_filtering |-> "no",
     stp_priority |-> ranges.stp_priority,
     forward_delay |-> ranges.forward_delay,
     vlan_default_pvid |-> ranges.vlan_default_pvid,
     clone_mac |-> ranges.clone_mac,
     dry_run |-> dry_run, force |-> force]

Ranges(p, fd, pvid, clone) ==
    [stp_priority |-> p, forward_delay |-> fd, vlan_default_pvid |-> pvid,
     clone_mac |-> clone]

NoRanges == Ranges(None, None, None, TRUE)

NoReq == Req("none", FALSE, <<>>, None, NoRanges, FALSE, FALSE)

\* the optional numbers a user may give: absent, valid, at and past the limits
RangeCases ==
    { NoRanges,
      Ranges(Some(40000), Some(15), Some(100), FALSE),
      Ranges(Some(0), Some(0), Some(0), TRUE),
      Ranges(Some(65535), Some(65535), Some(4094), TRUE),
      Ranges(Some(65536), None, None, TRUE),
      Ranges(Some(-1), Some(15), Some(100), TRUE),
      Ranges(None, Some(65536), None, TRUE),
      Ranges(Some(40000), None, Some(4095), TRUE),
      Ranges(None, None, Some(-1), FALSE) }

SlaveChoices == {None, Some(S_eth0)}

NameChoices == {S_br0, S_Br0, S_br, S_slave0, Uuid(1), Uuid(3), Uuid(5), S_eth9}

\* the device lists the commands run against
MainDeviceLists ==
    { <<>>,
      << Dev(S_eth0, TypeEthernet, "/", <<>>, MacA),
         Dev(S_wlan0, TypeWifi, "/ip4/3", Addr1, MacB) >>,
      << Dev(S_lo, TypeEthernet, "/ip4/4", Addr1, <<>>),
         Dev(S_virbr \o S_zero, TypeBridge, "/ip4/7", Addr1, MacA) >> }

World == [store |-> store, active |-> active, calls |-> calls, out |-> out]

Commit(w) ==
    /\ store' = w.store
    /\ active' = w.active
    /\ calls' = w.calls
    /\ out' = w.out

\* sys.exit(code)
SysExit(w, code, msg) == Log([w EXCEPT !.out.exit = Some(code)], msg)

\* line 275
slave_conn_name_of(r) == r.conn_name \o S_port \o r.slave_interface[1]

----------------------------------------------------------------------------
(* main(): the add command, lines 1017-1037 *)

\* a handler that does not stop at pre-existing bridges
handle_add_bridge_checks_NoForceCheck(args) ==
    LET slave_interface ==
            IF args.slave_interface = None
            THEN select_default_slave_interface(devices)
            ELSE args.slave_interface
    IN /\ selected' = IF args.slave_interface = None
                      THEN slave_interface ELSE selected
       /\ req' = [args EXCEPT !.slave_interface = slave_interface]
       /\ IF ~check_interface_exist(devices, slave_interface)
          THEN Commit(SysExit(World, 1, "No interface")) /\ pc' = "exit"
          ELSE Commit(World) /\ pc' = "add_cleanup"

handle_add_bridge_checks(args) ==
    LET found_bridges == find_existing_bridges(store) IN
    IF found_bridges # <<>> /\ ~args.force THEN
        /\ Commit(SysExit(World, 1, "There is already some bridges"))
        /\ pc' = "exit"
        /\ req' = args
        /\ UNCHANGED selected
    ELSE
        LET slave_interface ==
                IF args.slave_interface = None
                THEN select_default_slave_interface(devices)
                ELSE args.slave_interface
        IN /\ selected' = IF args.slave_interface = None
                          THEN slave_interface ELSE selected
           /\ req' = [args EXCEPT !.slave_interface = slave_interface]
           /\ IF ~check_interface_exist(devices, slave_interface)
              THEN Commit(SysExit(World, 1, "No interface")) /\ pc' = "exit"
              ELSE Commit(World) /\ pc' = "add_cleanup"

HandleAddBridge ==
    /\ pc = "idle"
    /\ \E slave \in SlaveChoices, ranges \in RangeCases,
          dry_run \in BOOLEAN, force \in BOOLEAN :
          handle_add_bridge_checks(
              Req("add", FALSE, <<>>, slave, ranges, dry_run, force))
    /\ UNCHANGED <<devices, fresh, locals, store0, active0,
                   candidates, bridge_views>>

\* InteractiveShell.do_add, lines 733-782
do_add_checks(args) ==
    LET slave_interface ==
            IF args.slave_interface = None
            THEN select_default_slave_interface(devices)
            ELSE args.slave_interface
    IN /\ selected' = IF args.slave_interface = None
                      THEN slave_interface ELSE selected
       /\ req' = [args EXCEPT !.slave_interface = slave_interface]
       /\ IF slave_interface = None
          THEN Commit(Log(World, "Could not find a suitable default slave"))
               /\ pc' = "done"
          ELSE Commit(World) /\ pc' = "add_cleanup"

DoAdd ==
    /\ pc = "idle"
    /\ \E slave \in SlaveChoices, ranges \in RangeCases :
          do_add_checks(Req("add", TRUE, <<>>, slave, ranges, FALSE, FALSE))
    /\ UNCHANGED <<devices, fresh, locals, store0, active0,
                   candidates, bridge_views>>

----------------------------------------------------------------------------
(* NMManager.add_bridge_connection, lines 260-369, in the order of its code *)

EmptyDict == [k \in {} |-> 0]

\* lines 277-278: the two cleanup calls
AddCleanup ==
    /\ pc = "add_cleanup"
    /\ \E f1 \in BOOLEAN, f2 \in BOOLEAN :
          LET w1 == delete_connection(World, req.conn_name, FALSE,
                                      req.dry_run, f1)
              w2 == delete_connection(w1, slave_conn_name_of(req), FALSE,
                                      req.dry_run, f2)
          IN Commit(w2)
    /\ pc' = "add_settings"
    /\ UNCHANGED <<devices, fresh, locals, req, store0, active0, selected,
                   candidates, bridge_views>>

\* lines 292-297
mac_setting(r, devs) ==
    IF r.clone_mac /\ get_mac_address(devs, r.slave_interface[1]) # None
    THEN "mac-address" :>
             mac_bytes_of(get_mac_address(devs, r.slave_interface[1])[1])
    ELSE EmptyDict

\* lines 302-306, 313-317, 323-327: the three range checks
\* a check that rejects the two limits of the range
stp_priority_ok_Strict(r) ==
    r.stp_priority = None
        \/ (0 < r.stp_priority[1] /\ r.stp_priority[1] < 65535)

stp_priority_ok(r) ==
    r.stp_priority = None
        \/ (0 <= r.stp_priority[1] /\ r.stp_priority[1] <= 65535)

forward_delay_ok(r) ==
    r.forward_delay = None
        \/ (0 <= r.forward_delay[1] /\ r.forward_delay[1] <= 65535)

\* a build that forgets the VLAN id check
vlan_default_pvid_ok_Unchecked(r) == TRUE

vlan_default_pvid_ok(r) ==
    r.vlan_default_pvid = None
        \/ (0 <= r.vlan_default_pvid[1] /\ r.vlan_default_pvid[1] <= 4094)

\* lines 281-327: bridge_settings['bridge']
bridge_dict(r, devs) ==
    mac_setting(r, devs)
    @@ (IF r.stp # "" THEN "stp" :> (r.stp = "yes") ELSE EmptyDict)
    @@ (IF r.stp_priority # None
        THEN "priority" :> r.stp_priority[1] ELSE EmptyDict)
    @@ (IF r.multicast_snooping # ""
        THEN "multicast-snooping" :> (r.multicast_snooping = "yes")
        ELSE EmptyDict)
    @@ (IF r.forward_delay # None
        THEN "forward-delay" :> r.forward_delay[1] ELSE EmptyDict)
    @@ (IF r.vlan_filtering # ""
        THEN "vlan-filtering" :> (r.vlan_filtering = "yes") ELSE EmptyDict)
    @@ (IF r.vlan_default_pvid # None
        THEN "vlan_default_pvid" :> r.vlan_default_pvid[1] ELSE EmptyDict)

\* lines 280-329: the bridge settings are built, the ranges checked on the way
AddSettings ==
    /\ pc = "add_settings"
    /\ fresh' = fresh + 1
    /\ locals' = [bridge_uuid |-> Uuid(fresh),
                  bridge_settings |->
                      [connection |-> Conn(req.conn_name, Uuid(fresh), "bridge",
                                           req.bridge_ifname),
                       bridge |-> bridge_dict(req, devices)]]
    /\ IF ~stp_priority_ok(req) THEN
           /\ Commit(SysExit(World, 1, "STP priority must be between 0 and 65535"))
           /\ pc' = "exit"
       ELSE IF ~forward_delay_ok(req) THEN
           /\ Commit(SysExit(World, 1, "Forward delay must be between 0 and 30"))
           /\ pc' = "exit"
       ELSE IF ~vlan_default_pvid_ok(req) THEN
           /\ Commit(SysExit(World, 1, "Port VLAN id must be between 0 and 4094"))
           /\ pc' = "exit"
       ELSE
           /\ Commit(World)
           /\ pc' = "add_bridge"
    /\ UNCHANGED <<devices, req, store0, active0, selected,
                   candidates, bridge_views>>

\* Settings.AddConnection(settings): refused, or the profile is persisted
\* under a new object path and enumerated at position pos
AddConnection(w, settings, path, fails, pos) ==
    IF fails
    THEN [w EXCEPT !.calls =
              Append(@, Call("AddConnection", settings.connection.id, FALSE))]
    ELSE [w EXCEPT !.store =
              SvcAdd(@, Profile(path, settings.connection, settings.bridge), pos),
                   !.calls =
              Append(@, Call("AddConnection", settings.connection.id, TRUE))]

\* a build whose except clause of line 338 logs the error and goes on
AddBridgeProfile_GoesOn ==
    /\ pc = "add_bridge"
    /\ IF req.dry_run # FALSE THEN
           /\ Commit(Log(World, "DRY-RUN: Successfully added bridge profile"))
           /\ UNCHANGED fresh
       ELSE \E fails \in BOOLEAN, pos \in InsertPositions(store) :
           /\ Commit(Log(AddConnection(World, locals.bridge_settings, fresh,
                                       fails, pos),
                         IF fails THEN "Error adding bridge connection profile"
                         ELSE "Successfully added bridge profile"))
           /\ fresh' = IF fails THEN fresh ELSE fresh + 1
    /\ pc' = "add_slave"
    /\ UNCHANGED <<devices, locals, req, store0, active0, selected,
                   candidates, bridge_views>>

\* lines 331-340
AddBridgeProfile ==
    /\ pc = "add_bridge"
    /\ IF req.dry_run # FALSE THEN
           /\ Commit(Log(World, "DRY-RUN: Successfully added bridge profile"))
           /\ pc' = "add_slave"
           /\ UNCHANGED fresh
       ELSE \E fails \in BOOLEAN, pos \in InsertPositions(store) :
           IF fails THEN
               /\ Commit(Log(AddConnection(World, locals.bridge_settings, fresh,
                                           TRUE, pos),
                             "Error adding bridge connection profile"))
               /\ pc' = "add_returned"
               /\ UNCHANGED fresh
           ELSE
               /\ Commit(Log(AddConnection(World, locals.bridge_settings, fresh,
                                           FALSE, pos),
                             "Successfully added bridge profile"))
               /\ pc' = "add_slave"
               /\ fresh' = fresh + 1
    /\ UNCHANGED <<devices, locals, req, store0, active0, selected,
                   candidates, bridge_views>>

\* lines 342-351
slave_settings(r, bridge_uuid, slave_uuid) ==
    [connection |-> Conn(slave_conn_name_of(r), slave_uuid, "802-3-ethernet",
                         r.slave_interface[1]) @@ Slave(bridge_uuid),
     bridge |-> EmptyDict]

\* lines 354-367: the slave profile is submitted; on a refusal the error is
\* logged and the handler goes on to the rollback
AddSlaveProfile ==
    /\ pc = "add_slave"
    /\ LET settings == slave_settings(req, locals.bridge_uuid, Uuid(fresh)) IN
       IF req.dry_run # FALSE THEN
           /\ Commit(Log(World, "DRY-RUN: Successfully enslaved interface"))
           /\ pc' = "add_returned"
           /\ fresh' = fresh + 1
       ELSE \E fails \in BOOLEAN, pos \in InsertPositions(store) :
           IF fails THEN
               /\ Commit(Log(AddConnection(World, settings, fresh + 1, TRUE, pos),
                             "Error adding slave connection profile"))
               /\ pc' = "add_rollback"
               /\ fresh' = fresh + 1
           ELSE
               /\ Commit(Log(AddConnection(World, settings, fresh + 1, FALSE, pos),
                             "Successfully enslaved interface"))
               /\ pc' = "add_returned"
               /\ fresh' = fresh + 2
    /\ UNCHANGED <<devices, locals, req, store0, active0, selected,
                   candidates, bridge_views>>

\* lines 368-369: the two rollback calls
AddRollback ==
    /\ pc = "add_rollback"
    /\ \E f1 \in BOOLEAN, f2 \in BOOLEAN :
          LET w1 == delete_connection(World, req.conn_name, FALSE,
                                      req.dry_run, f1)
              w2 == delete_connection(w1, slave_conn_name_of(req), FALSE,
                                      req.dry_run, f2)
          IN Commit(w2)
    /\ pc' = "add_returned"
    /\ UNCHANGED <<devices, fresh, locals, req, store0, active0, selected,
                   candidates, bridge_views>>

\* lines 1035-1037 (main) and 784-785 (shell): the caller activates the slave
AfterAdd ==
    /\ pc = "add_returned"
    /\ IF req.shell \/ ~req.dry_run THEN
           \E fails \in BOOLEAN :
               /\ Commit(activate_connection(World, slave_conn_name_of(req),
                                             FALSE, fails, fresh))
               /\ fresh' = fresh + 1
       ELSE Commit(World) /\ UNCHANGED fresh
    /\ pc' = "done"
    /\ UNCHANGED <<devices, locals, req, store0, active0, selected,
                   candidates, bridge_views>>

----------------------------------------------------------------------------
(* main(): delete, activate, deactivate, lines 1049-1056 (and the shell's
   do_delete, do_activate, do_deactivate, lines 844-874) *)

HandleDelete ==
    /\ pc = "idle"
    /\ \E name \in NameChoices, dry_run \in BOOLEAN, fails \in BOOLEAN :
          /\ req' = Req("delete", FALSE, name, None, NoRanges, dry_run, FALSE)
          /\ Commit(delete_connection(World, name, TRUE, dry_run, fails))
    /\ pc' = "done"
    /\ UNCHANGED <<devices, fresh, locals, store0, active0, selected,
                   candidates, bridge_views>>

HandleActivate ==
    /\ pc = "idle"
    /\ \E name \in NameChoices, dry_run \in BOOLEAN, fails \in BOOLEAN :
          /\ req' = Req("activate", FALSE, name, None, NoRanges, dry_run, FALSE)
          /\ Commit(activate_connection(World, name, dry_run, fails, fresh))
    /\ fresh' = fresh + 1
    /\ pc' = "done"
    /\ UNCHANGED <<devices, locals, store0, active0, selected,
                   candidates, bridge_views>>

HandleDeactivate ==
    /\ pc = "idle"
    /\ \E name \in NameChoices, dry_run \in BOOLEAN, fails \in BOOLEAN :
          /\ req' = Req("deactivate", FALSE, name, None, NoRanges, dry_run,
                        FALSE)
          /\ Commit(deactivate_connection(World, name, dry_run, fails))
    /\ pc' = "done"
    /\ UNCHANGED <<devices, fresh, locals, store0, active0, selected,
                   candidates, bridge_views>>

----------------------------------------------------------------------------
(* One command per run of the program, from any state of the service *)

Init ==
    /\ devices \in MainDeviceLists
    /\ store \in InitStores(MaxInitProfiles)
    /\ active \in InitActives(store)
    /\ fresh = FirstFresh
    /\ locals = NoLocals
    /\ pc = "idle"
    /\ req = NoReq
    /\ calls = <<>>
    /\ store0 = store
    /\ active0 = active
    /\ out = NoOut
    /\ selected = None
    /\ candidates = <<>>
    /\ bridge_views = <<>>

Next ==
    \/ HandleAddBridge
    \/ DoAdd
    \/ AddCleanup
    \/ AddSettings
    \/ AddBridgeProfile
    \/ AddSlaveProfile
    \/ AddRollback
    \/ AfterAdd
    \/ HandleDelete
    \/ HandleActivate
    \/ HandleDeactivate

Spec == Init /\ [][Next]_vars

----------------------------------------------------------------------------
(* The interface selector and the candidate list, over every device list *)

InitSel ==
    /\ devices \in DeviceLists(MaxDevices)
    /\ store = <<>>
    /\ active = <<>>
    /\ fresh = FirstFresh
    /\ locals = NoLocals
    /\ pc = "idle"
    /\ req = NoReq
    /\ calls = <<>>
    /\ store0 = <<>>
    /\ active0 = <<>>
    /\ out = NoOut
    /\ selected = None
    /\ candidates = <<>>
    /\ bridge_views = <<>>

RunSelect ==
    /\ pc = "idle"
    /\ selected' = select_default_slave_interface(devices)
    /\ pc' = "selected"
    /\ UNCHANGED <<devices, store, active, fresh, locals, req, calls, store0,
                   active0, out, candidates, bridge_views>>

RunCandidates ==
    /\ pc = "selected"
    /\ candidates' = get_slave_candidates(devices)
    /\ pc' = "listed"
    /\ UNCHANGED <<devices, store, active, fresh, locals, req, calls, store0,
                   active0, out, selected, bridge_views>>

NextSel == RunSelect \/ RunCandidates

SpecSel == InitSel /\ [][NextSel]_vars

----------------------------------------------------------------------------
(* The listing of the bridges, over every set of persisted profiles *)

SlaveOf(master, slave_type) == [master |-> master] @@ ("slave-type" :> slave_type)

\* the profiles a store may hold when the bridges are listed: two bridges, a
\* bridge profile without UUID, slaves of each bridge, a slave of a bridge
\* that does not exist, a bridge that names a master itself, a bond slave, a
\* slave without master and a plain Ethernet profile
BridgeProfileUniverse ==
    { Profile(11, Conn(S_br0, Uuid(1), "bridge", S_br0), [stp |-> TRUE]),
      Profile(12, Conn(S_Br0, Uuid(2), "bridge", S_Br0), [stp |-> FALSE]),
      Profile(13, Conn(S_br, <<>>, "bridge", S_br), EmptyDict),
      Profile(14, Conn(S_slave0, Uuid(4), "802-3-ethernet", S_eth0)
                    @@ Slave(Uuid(1)), EmptyDict),
      Profile(15, Conn(S_wlan0, Uuid(5), "802-11-wireless", S_wlan0)
                    @@ Slave(Uuid(1)), EmptyDict),
      Profile(16, Conn(S_eth1, Uuid(6), "802-3-ethernet", S_eth1)
                    @@ Slave(Uuid(2)), EmptyDict),
      Profile(17, Conn(S_eth9, Uuid(7), "802-3-ethernet", S_eth9)
                    @@ Slave(Uuid(9)), EmptyDict),
      Profile(18, Conn(S_virbr, Uuid(8), "bridge", S_virbr)
                    @@ Slave(Uuid(1)), EmptyDict),
      Profile(19, Conn(S_wlan1, Uuid(3), "802-3-ethernet", S_wlan1)
                    @@ SlaveOf(Uuid(1), "bond"), EmptyDict),
      Profile(20, Conn(S_tun0, Uuid(0), "802-3-ethernet", S_tun0)
                    @@ SlaveOf(<<>>, "bridge"), EmptyDict),
      Profile(21, Conn(S_eth0, Uuid(10), "802-3-ethernet", S_eth0), EmptyDict) }

BridgeStores(n) ==
    UNION { { s \in [1..k -> BridgeProfileUniverse] :
                \A i, j \in 1..k : i # j => s[i] # s[j] } : k \in 0..n }

InitBridges ==
    /\ devices = <<>>
    /\ store \in BridgeStores(MaxBridgeProfiles)
    /\ active = <<>>
    /\ fresh = FirstFresh
    /\ locals = NoLocals
    /\ pc = "idle"
    /\ req = NoReq
    /\ calls = <<>>
    /\ store0 = store
    /\ active0 = <<>>
    /\ out = NoOut
    /\ selected = None
    /\ candidates = <<>>
    /\ bridge_views = <<>>

\* main(), line 1017: found_bridges = manager.find_existing_bridges()
RunFindBridges ==
    /\ pc = "idle"
    /\ bridge_views' = find_existing_bridges(store)
    /\ pc' = "found"
    /\ UNCHANGED <<devices, store, active, fresh, locals, req, calls, store0,
                   active0, out, selected, candidates>>

NextBridges == RunFindBridges

SpecBridges == InitBridges /\ [][NextBridges]_vars

----------------------------------------------------------------------------
(* Properties of the interface selector (under SpecSel) *)

\* what the specification calls an excluded device
Excluded(d) ==
    \/ d.Interface = S_lo
    \/ d.DeviceType = TypeBridge
    \/ \E p \in {S_virbr, S_vnet, S_docker, S_p2pdev} : StartsWith(d.Interface, p)

DeviceSet(devs) == { devs[i] : i \in 1..Len(devs) }

\* the four buckets, as sets of interface names
Bucket(devs, type, with_ip) ==
    { d.Interface : d \in { e \in DeviceSet(devs) :
          /\ ~Excluded(e)
          /\ e.DeviceType = type
          /\ with_ip = (e.Ip4Config # "/" /\ Len(e.Addresses) >= 1) } }

SmallestName(names) == CHOOSE n \in names : \A m \in names : ~StrLess(m, n)

ExpectedSelection(devs) ==
    LET b1 == Bucket(devs, TypeEthernet, TRUE)
        b2 == Bucket(devs, TypeWifi, TRUE)
        b3 == Bucket(devs, TypeEthernet, FALSE)
        b4 == Bucket(devs, TypeWifi, FALSE)
    IN IF b1 # {} THEN Some(SmallestName(b1))
       ELSE IF b2 # {} THEN Some(SmallestName(b2))
       ELSE IF b3 # {} THEN Some(SmallestName(b3))
       ELSE IF b4 # {} THEN Some(SmallestName(b4))
       ELSE None

\* C4: for every device list the selector returns the lexicographically
\* smallest interface of the first non-empty bucket, in the order
\* Ethernet-with-IP, Wi-Fi-with-IP, Ethernet-without-IP, Wi-Fi-without-IP,
\* the buckets holding only non-excluded devices.
C4_SelectorPicksFirstBucketSmallest ==
    pc # "idle" => selected = ExpectedSelection(devices)

\* C4 witness: {eth0: Ethernet without IP, wlan0: Wi-Fi with IP} and a third
\* device; the selector has returned wlan0.
C4_Witness ==
    /\ pc = "selected"
    /\ Len(devices) = 3
    /\ \E i, j \in 1..3 :
          /\ devices[i].Interface = S_eth0 /\ ~HasIp(devices[i])
          /\ devices[j].Interface = S_wlan0 /\ HasIp(devices[j])
    /\ selected = Some(S_wlan0)

Permuted(devs, f) == [i \in 1..Len(devs) |-> devs[f[i]]]

\* every device the claim calls excluded
ExcludedOrOtherType(d) ==
    Excluded(d) \/ d.DeviceType \notin {TypeEthernet, TypeWifi}

\* C5: the selector returns the same interface whatever order the service
\* enumerates the devices in; it returns None when the device set is empty or
\* holds only excluded devices; it never returns an excluded device.
C5_SelectorDeterministic ==
    pc # "idle" =>
        /\ \A f \in Permutations(1..Len(devices)) :
              select_default_slave_interface(Permuted(devices, f)) = selected
        /\ (\A i \in 1..Len(devices) : ExcludedOrOtherType(devices[i]))
              => selected = None
        /\ selected # None
              => \E i \in 1..Len(devices) :
                    /\ devices[i].Interface = selected[1]
                    /\ ~ExcludedOrOtherType(devices[i])

\* C5 witness: two Ethernet devices with an IP enumerated in descending
\* order beside an excluded one; the smaller name was returned.
C5_Witness ==
    /\ pc = "selected"
    /\ Len(devices) = 3
    /\ devices[1].Interface = S_eth1 /\ HasIp(devices[1])
    /\ devices[2].Interface = S_eth0 /\ HasIp(devices[2])
    /\ Excluded(devices[3])
    /\ selected = Some(S_eth0)

\* C5 witness of the absent result: only excluded devices.
C5_WitnessNone ==
    /\ pc = "selected"
    /\ Len(devices) = 2
    /\ \A i \in 1..2 : ExcludedOrOtherType(devices[i])
    /\ selected = None

----------------------------------------------------------------------------
(* Properties of the commands (under Spec) *)

HasId(st, id) == \E i \in 1..Len(st) : st[i].connection.id = id

Issued(op) == { i \in 1..Len(calls) : calls[i].op = op }

RangesOk(r) ==
    /\ r.stp_priority = None \/ r.stp_priority[1] \in 0..65535
    /\ r.forward_delay = None \/ r.forward_delay[1] \in 0..65535
    /\ r.vlan_default_pvid = None \/ r.vlan_default_pvid[1] \in 0..4094

SlaveAddFailed ==
    \E i \in 1..Len(calls) :
        calls[i] = Call("AddConnection", slave_conn_name_of(req), FALSE)

SlaveAddSucceeded ==
    \E i \in 1..Len(calls) :
        calls[i] = Call("AddConnection", slave_conn_name_of(req), TRUE)

AllOtherCallsSucceeded ==
    \A i \in 1..Len(calls) :
        calls[i].ok
            \/ calls[i] = Call("AddConnection", slave_conn_name_of(req), FALSE)

\* C1: when add_bridge_connection runs without dry-run and has returned, if
\* the slave AddConnection failed (every other call succeeding) the store
\* holds neither a profile named conn_name nor one named
\* conn_name-port-slave_iface, and if it succeeded the store holds both.
C1_NoHalfCreatedPair ==
    (pc = "add_returned" /\ req.dry_run = FALSE /\ AllOtherCallsSucceeded) =>
        /\ SlaveAddFailed =>
              /\ ~HasId(store, req.conn_name)
              /\ ~HasId(store, slave_conn_name_of(req))
        /\ SlaveAddSucceeded =>
              /\ HasId(store, req.conn_name)
              /\ HasId(store, slave_conn_name_of(req))

ValidationMessages ==
    {"STP priority must be between 0 and 65535",
     "Forward delay must be between 0 and 30",
     "Port VLAN id must be between 0 and 4094"}

\* C2: when add_bridge_connection is called with an STP priority, a forward
\* delay or a default VLAN id out of range, it fails with a validation error
\* before any mutation: no Delete and no AddConnection call is issued and the
\* persisted profiles are those of before the call.
C2_ValidationBeforeMutation ==
    (req.command = "add" /\ ~RangesOk(req) /\ locals # NoLocals) =>
        /\ pc = "exit"
        /\ out.exit = Some(1)
        /\ out.log \cap ValidationMessages # {}
        /\ calls = <<>>
        /\ store = store0

\* C3: when add_bridge_connection is called with a default VLAN id outside
\* [0,4094] or an STP priority outside [0,65535], the operation is rejected
\* before any profile is submitted: no AddConnection call occurs in the run,
\* and the run ends in the validation error.
C3_RejectedBeforeSubmission ==
    (req.command = "add"
        /\ (~(req.stp_priority = None \/ req.stp_priority[1] \in 0..65535)
            \/ ~(req.vlan_default_pvid = None
                 \/ req.vlan_default_pvid[1] \in 0..4094))) =>
        /\ Issued("AddConnection") = {}
        /\ pc \notin {"add_bridge", "add_slave", "add_rollback", "add_returned"}
        /\ locals # NoLocals =>
              /\ pc = "exit"
              /\ out.exit = Some(1)
              /\ out.log \cap ValidationMessages # {}

\* C3 witness: a non-dry run with a default VLAN id of 4095 and a valid STP
\* priority has ended in the validation error.
C3_Witness ==
    /\ pc = "exit"
    /\ req.command = "add"
    /\ ~req.dry_run
    /\ req.stp_priority = Some(40000)
    /\ req.vlan_default_pvid = Some(4095)
    /\ "Port VLAN id must be between 0 and 4094" \in out.log

\* C6 as first stated: with the dry-run flag set no mutating call is issued,
\* profiles and active connections stay as they were, and the operation
\* returns normally as if it had succeeded.
C6_DryRunReturnsNormally ==
    req.dry_run =>
        /\ calls = <<>>
        /\ store = store0
        /\ active = active0
        /\ req.command \in {"delete", "activate", "deactivate"}
              => pc = "done" /\ out.exit = None
        /\ (req.command = "add" /\ locals # NoLocals)
              => pc # "exit" /\ out.exit = None

\* C6: with the dry-run flag set, add_bridge_connection, delete_connection,
\* activate_connection and deactivate_connection issue no Delete,
\* AddConnection, ActivateConnection or DeactivateConnection call, and the
\* persisted profiles and the active connections stay as they were; the
\* operation returns normally, except that add_bridge_connection still ends
\* in its validation error (exit status 1) when a value is out of range.
C6_DryRunIssuesNoCall ==
    req.dry_run =>
        /\ calls = <<>>
        /\ store = store0
        /\ active = active0
        /\ req.command \in {"delete", "activate", "deactivate"}
              => pc = "done" /\ out.exit = None
        /\ (req.command = "add" /\ locals # NoLocals) =>
              IF RangesOk(req)
              THEN pc \in {"add_bridge", "add_slave", "add_returned", "done"}
                   /\ out.exit = None
              ELSE pc = "exit" /\ out.exit = Some(1)

\* C6 witness: a dry-run add has returned and the caller is done, in a state
\* whose profiles carry both target names (the cleanup would have deleted
\* them).
C6_Witness ==
    /\ pc = "done"
    /\ req.command = "add"
    /\ req.dry_run
    /\ HasId(store0, req.conn_name)
    /\ HasId(store0, slave_conn_name_of(req))

Matches(st, x) ==
    { i \in 1..Len(st) : st[i].connection.id = x \/ st[i].connection.uuid = x }

\* C7: delete_connection called from the delete command with a name that
\* matches no persisted profile's identifier or UUID issues no Delete call,
\* leaves the persisted profiles unchanged, does not raise, and lists the
\* available connections.
C7_DeleteMissingIsNoOp ==
    (req.command = "delete" /\ Matches(store0, req.name) = {}) =>
        /\ pc = "done"
        /\ calls = <<>>
        /\ store = store0
        /\ active = active0
        /\ out.exit = None
        /\ out.listed = 1
        /\ "not found to delete" \in out.log

\* C7 witness: a delete (not a dry run) of "br", which no profile is named,
\* against a store that holds a profile named "br0".
C7_Witness ==
    /\ pc = "done"
    /\ req.command = "delete"
    /\ ~req.dry_run
    /\ req.name = S_br
    /\ HasId(store0, S_br0)
    /\ out.listed = 1

MinIndex(S) == CHOOSE i \in S : \A j \in S : i <= j

\* C8: find_connection(x) returns the first profile, in enumeration order,
\* whose identifier or UUID equals x exactly, and nothing when no profile
\* matches; the delete command deletes that profile.
C8_FindFirstExactMatch ==
    /\ \A x \in NameChoices :
          find_connection(store, x) =
              IF Matches(store, x) = {} THEN NoPath
              ELSE store[MinIndex(Matches(store, x))].path
    /\ (req.command = "delete" /\ calls # <<>>) =>
          /\ Matches(store0, req.name) # {}
          /\ calls[1].arg = <<store0[MinIndex(Matches(store0, req.name))].path>>

\* C8 witness: two profiles share the identifier given to the delete command
\* and the one enumerated first was deleted.
C8_Witness ==
    /\ pc = "done"
    /\ req.command = "delete"
    /\ Cardinality(Matches(store0, req.name)) = 2
    /\ calls = <<Call("Delete", <<store0[1].path>>, TRUE)>>
    /\ Len(store) = 1
    /\ store[1] = store0[2]

BridgeProfiles(st) == { i \in 1..Len(st) : st[i].connection.type = "bridge" }

\* C9: the add command run without --force while a bridge-type profile is
\* persisted ends with exit code 1 and issues no call, the persisted profiles
\* unchanged; with --force (and an existing slave interface) it goes on to
\* add_bridge_connection.
C9_ExistingBridgeNeedsForce ==
    (req.command = "add" /\ ~req.shell /\ BridgeProfiles(store0) # {}) =>
        IF ~req.force THEN
            /\ pc = "exit"
            /\ out.exit = Some(1)
            /\ calls = <<>>
            /\ store = store0
            /\ active = active0
        ELSE
            /\ "There is already some bridges" \notin out.log
            /\ (\E i \in 1..Len(devices) :
                    Some(devices[i].Interface) = req.slave_interface)
                  => /\ pc \in {"add_cleanup", "add_settings", "add_bridge",
                                "add_slave", "add_rollback", "add_returned",
                                "done", "exit"}
                     /\ pc = "exit" => locals # NoLocals

\* C9 witness: an add without --force and without --dry-run, with valid
\* values and an existing slave interface, has stopped at a persisted bridge.
C9_Witness ==
    /\ pc = "exit"
    /\ req.command = "add"
    /\ ~req.shell /\ ~req.force /\ ~req.dry_run
    /\ RangesOk(req)
    /\ req.slave_arg = Some(S_eth0)
    /\ \E i \in 1..Len(devices) : devices[i].Interface = S_eth0
    /\ BridgeProfiles(store0) # {}

SlaveMissing ==
    \/ /\ req.slave_arg # None
       /\ \A i \in 1..Len(devices) : devices[i].Interface # req.slave_arg[1]
    \/ /\ req.slave_arg = None
       /\ select_default_slave_interface(devices) = None

\* C10: the add command ends with exit code 1, before any Delete,
\* AddConnection or ActivateConnection call, when the named slave interface
\* is not among the devices or when no slave was named and the selector
\* returned nothing.
C10_MissingSlaveExits ==
    (req.command = "add" /\ ~req.shell /\ SlaveMissing) =>
        /\ pc = "exit"
        /\ out.exit = Some(1)
        /\ calls = <<>>
        /\ store = store0
        /\ active = active0

\* C10 witness: no bridge is in the way, the named slave eth0 is not among
\* the (existing) devices, and the command has ended on that.
C10_Witness ==
    /\ pc = "exit"
    /\ req.command = "add" /\ ~req.shell /\ ~req.dry_run
    /\ BridgeProfiles(store0) = {}
    /\ store0 # <<>>
    /\ req.slave_arg = Some(S_eth0)
    /\ devices # <<>>
    /\ "No interface" \in out.log

\* C10, second case: no slave was named and the selector returned nothing.
C10_WitnessSelector ==
    /\ pc = "exit"
    /\ req.command = "add" /\ ~req.shell /\ req.force
    /\ req.slave_arg = None
    /\ devices # <<>>
    /\ "No interface" \in out.log

----------------------------------------------------------------------------
(* Properties of deactivate (under Spec) *)

\* the active connections, before the command, whose bound profile has x as
\* its identifier, or as its identifier or UUID
ActiveById(x) ==
    { i \in 1..Len(active0) :
          ProfileAt(store0, active0[i].Connection).connection.id = x }

ActiveByIdOrUuid(x) ==
    { i \in 1..Len(active0) :
          \/ ProfileAt(store0, active0[i].Connection).connection.id = x
          \/ ProfileAt(store0, active0[i].Connection).connection.uuid = x }

\* C11: the deactivate command (not a dry run) given the identifier or the
\* UUID of the profile bound to an active connection issues a
\* DeactivateConnection call for an active connection bound to such a profile.
C11_DeactivateByNameOrUuid ==
    (req.command = "deactivate" /\ ~req.dry_run
        /\ ActiveByIdOrUuid(req.name) # {}) =>
        /\ Len(calls) = 1
        /\ calls[1].op = "DeactivateConnection"
        /\ \E i \in ActiveByIdOrUuid(req.name) :
              calls[1].arg = Some(active0[i].ac)

----------------------------------------------------------------------------
(* Properties of a successful add_bridge_connection (under Spec) *)

BridgeAddSucceeded ==
    \E i \in 1..Len(calls) :
        calls[i] = Call("AddConnection", req.conn_name, TRUE)

\* add_bridge_connection has returned after both profiles were accepted
AddSucceeded ==
    /\ req.command = "add"
    /\ pc \in {"add_returned", "done"}
    /\ BridgeAddSucceeded
    /\ SlaveAddSucceeded

\* the views find_existing_bridges gives of the bridge created in this run
NewBridgeViews ==
    LET found == find_existing_bridges(store)
    IN { i \in 1..Len(found) : found[i].uuid = locals.bridge_uuid }

\* the persisted profile created for the bridge in this run
NewBridgeProfiles ==
    { i \in 1..Len(store) : store[i].connection.uuid = locals.bridge_uuid }

\* the hardware address of the slave interface, read from the device itself
\* (none when no device has that name)
SlaveHwAddress ==
    LET ds == { d \in DeviceSet(devices) :
                    d.Interface = req.slave_interface[1] }
    IN IF ds = {} THEN <<>> ELSE (CHOOSE d \in ds : TRUE).HwAddress

\* C12: after a successful add_bridge_connection with clone-MAC enabled and a
\* slave interface that has a hardware address, the bridge profile read back
\* by find_existing_bridges shows a MAC address equal to that hardware
\* address; with clone-MAC disabled the bridge profile has no MAC-address
\* setting.
C12_ClonedMacRoundTrip ==
    AddSucceeded =>
        /\ Cardinality(NewBridgeViews) = 1
        /\ \A i \in NewBridgeViews :
              LET view == find_existing_bridges(store)[i] IN
              IF req.clone_mac
              THEN SlaveHwAddress # <<>> =>
                       view.bridge_settings.mac_address = SlaveHwAddress
              ELSE view.bridge_settings.mac_address = S_NotSet
        /\ \A i \in NewBridgeProfiles :
              ~req.clone_mac => "mac-address" \notin DOMAIN store[i].bridge

\* C12 witness: eth0 with hardware address 00:1A:2B was enslaved with
\* clone-MAC enabled, and the new bridge reads back with that address.
C12_Witness ==
    /\ pc = "add_returned"
    /\ AddSucceeded
    /\ req.clone_mac
    /\ req.slave_interface = Some(S_eth0)
    /\ SlaveHwAddress = MacA
    /\ \E i \in NewBridgeViews :
          find_existing_bridges(store)[i].bridge_settings.mac_address = MacA

\* C12 witness, clone-MAC disabled: the new bridge reads back "Not set".
C12_WitnessNoClone ==
    /\ pc = "add_returned"
    /\ AddSucceeded
    /\ ~req.clone_mac
    /\ SlaveHwAddress # <<>>
    /\ \E i \in NewBridgeViews :
          find_existing_bridges(store)[i].bridge_settings.mac_address = S_NotSet

AllCallsSucceeded == \A i \in 1..Len(calls) : calls[i].ok

\* C13: add_bridge_connection with an STP priority in [0,65535] (the other
\* values valid, not a dry run) and no service failure succeeds: it does not
\* exit, both profiles are accepted, and the priority field of the new bridge,
\* as find_existing_bridges reads it back, equals the priority given.
C13_PriorityPersisted ==
    (req.command = "add" /\ ~req.dry_run /\ req.stp_priority # None
        /\ RangesOk(req) /\ locals # NoLocals /\ AllCallsSucceeded) =>
        /\ pc # "exit" /\ out.exit = None
        /\ pc \in {"add_returned", "done"} =>
              /\ AddSucceeded
              /\ Cardinality(NewBridgeViews) = 1
              /\ \A i \in NewBridgeViews :
                    find_existing_bridges(store)[i].bridge_settings.priority
                        = req.stp_priority
              /\ \A i \in NewBridgeProfiles :
                    store[i].bridge["priority"] = req.stp_priority[1]

\* C13 witness: br0 was created from eth0 with STP priority 40000 and reads
\* back with priority 40000.
C13_Witness ==
    /\ pc = "add_returned"
    /\ AddSucceeded
    /\ AllCallsSucceeded
    /\ req.conn_name = S_br0
    /\ req.slave_interface = Some(S_eth0)
    /\ req.stp_priority = Some(40000)
    /\ \E i \in NewBridgeViews :
          find_existing_bridges(store)[i].bridge_settings.priority = Some(40000)

\* C13 witness at the upper limit: priority 65535 was accepted and persisted.
C13_WitnessLimit ==
    /\ pc = "add_returned"
    /\ AddSucceeded
    /\ req.stp_priority = Some(65535)
    /\ \E i \in NewBridgeProfiles : store[i].bridge["priority"] = 65535

----------------------------------------------------------------------------
(* Properties of the candidate list (under SpecSel) *)

\* the Ethernet and Wi-Fi devices the selector does not exclude
SelectableNames(devs) ==
    { d.Interface : d \in { e \in DeviceSet(devs) :
          /\ e.DeviceType \in {TypeEthernet, TypeWifi}
          /\ ~SelectSkips(e) } }

Ascending(s) == \A i, j \in 1..Len(s) : i < j => StrLess(s[i], s[j])

\* C14: for every device list get_slave_candidates returns, sorted ascending,
\* exactly the Ethernet and Wi-Fi devices that select_default_slave_interface
\* does not exclude; so an interface the selector returns is in the list.
C14_CandidatesFollowSelectorRule ==
    pc = "listed" =>
        /\ { candidates[i] : i \in 1..Len(candidates) }
              = SelectableNames(devices)
        /\ Len(candidates) = Cardinality(SelectableNames(devices))
        /\ Ascending(candidates)
        /\ selected # None
              => \E i \in 1..Len(candidates) : candidates[i] = selected[1]

----------------------------------------------------------------------------
(* Properties of add_bridge_connection under service failures (under Spec) *)

\* C15: whichever of the cleanup Delete calls, the bridge AddConnection, the
\* slave AddConnection and the rollback Delete calls fail, when
\* add_bridge_connection (not a dry run) returns, a profile named conn_name is
\* persisted if and only if one named conn_name-port-slave_iface is.
C15_PairCompleteUnderFailures ==
    (req.command = "add" /\ ~req.dry_run /\ pc = "add_returned") =>
        (HasId(store, req.conn_name) <=> HasId(store, slave_conn_name_of(req)))

BridgeAddFailed ==
    \E i \in 1..Len(calls) :
        calls[i] = Call("AddConnection", req.conn_name, FALSE)

\* C16: if the bridge-profile AddConnection call fails, add_bridge_connection
\* returns at once: that call is the only AddConnection of the run (no slave
\* profile is submitted) and no Delete call follows it (no rollback).
C16_BridgeFailureAborts ==
    (req.command = "add" /\ BridgeAddFailed) =>
        /\ pc \in {"add_returned", "done"}
        /\ Cardinality(Issued("AddConnection")) = 1
        /\ \A i \in 1..Len(calls) :
              calls[i].op = "AddConnection" => calls[i].arg = req.conn_name
        /\ \A i \in Issued("AddConnection"), j \in Issued("Delete") : j < i
        /\ ~HasId(store, req.conn_name) \/ HasId(store0, req.conn_name)

\* C16 witness: the cleanup deleted a profile, the bridge submission was
\* refused, and the caller has finished.
C16_Witness ==
    /\ pc = "done"
    /\ req.command = "add"
    /\ BridgeAddFailed
    /\ Len(calls) >= 2
    /\ calls[1].op = "Delete" /\ calls[1].ok
    /\ store # store0

\* the calls of op issued with argument arg
IssuedWith(op, arg) ==
    { i \in 1..Len(calls) : calls[i].op = op /\ calls[i].arg = arg }

\* the range validation of add_bridge_connection has run and has passed
ValidationPassed == locals # NoLocals /\ RangesOk(req) /\ pc # "exit"

\* the order of the phases after validation: the bridge profile is submitted
\* once, the slave profile once and only after an accepted bridge submission,
\* a Delete follows an AddConnection only as the rollback of a refused slave
\* submission
SubmissionOrder ==
    /\ Cardinality(IssuedWith("AddConnection", req.conn_name)) <= 1
    /\ Cardinality(IssuedWith("AddConnection", slave_conn_name_of(req))) <= 1
    /\ \A i \in Issued("AddConnection") :
          calls[i].arg = slave_conn_name_of(req) =>
              \E j \in 1..(i - 1) :
                  calls[j] = Call("AddConnection", req.conn_name, TRUE)
    /\ \A i \in Issued("Delete") :
          (\E j \in Issued("AddConnection") : j < i) =>
              \E j \in 1..(i - 1) :
                  calls[j] = Call("AddConnection", slave_conn_name_of(req),
                                  FALSE)

\* C17: a bridge creation attempt goes through Validating, CleaningPriorState,
\* CreatingBridgeProfile, CreatingSlaveProfile in this order: no Delete call
\* is issued before the range validation has passed, the bridge profile is
\* submitted after the cleanup and once, the slave profile once and only
\* after an accepted bridge submission, the rollback only after a refused
\* slave submission.
C17_PhaseOrder ==
    (req.command = "add" /\ pc \notin {"idle", "add_cleanup"}) =>
        /\ calls # <<>> => ValidationPassed
        /\ SubmissionOrder

\* the part of C17 that comes after the first two phases
C17_SubmissionOrderHolds ==
    (req.command = "add" /\ pc \notin {"idle", "add_cleanup"}) =>
        SubmissionOrder

\* how many persisted profiles have this identifier
CountId(st, id) == Cardinality({ i \in 1..Len(st) : st[i].connection.id = id })

\* C18: for every initial store, also one where several profiles share the
\* identifier conn_name or conn_name-port-slave_iface, after a run of
\* add_bridge_connection (not a dry run) in which no service call failed,
\* exactly one persisted profile is named conn_name and exactly one
\* conn_name-port-slave_iface.
C18_CleanupRemovesEveryOldProfile ==
    (req.command = "add" /\ ~req.dry_run /\ pc = "add_returned"
        /\ AllCallsSucceeded) =>
        /\ CountId(store, req.conn_name) = 1
        /\ CountId(store, slave_conn_name_of(req)) = 1

----------------------------------------------------------------------------
(* Properties of find_existing_bridges (under SpecBridges) *)

\* the persisted profiles of type bridge that have a UUID
BridgesWithUuid(st) ==
    { i \in 1..Len(st) :
          st[i].connection.type = "bridge" /\ st[i].connection.uuid # <<>> }

\* p is a profile not of type bridge, of slave-type bridge, with master uuid
IsSlaveOf(p, uuid) ==
    /\ p.connection.type # "bridge"
    /\ "slave-type" \in DOMAIN p.connection
    /\ p.connection["slave-type"] = "bridge"
    /\ "master" \in DOMAIN p.connection
    /\ p.connection.master = uuid

\* the slaves of the bridge with this UUID, in the order of the profiles
ExpectedSlaves(st, uuid) ==
    LET sel == SelectSeq(st, LAMBDA p : IsSlaveOf(p, uuid))
    IN [k \in 1..Len(sel) |->
           [iface |-> sel[k].connection["interface-name"],
            conn_id |-> sel[k].connection.id]]

RECURSIVE SumLen(_, _)
SumLen(views, i) ==
    IF i > Len(views) THEN 0 ELSE Len(views[i].slaves) + SumLen(views, i + 1)

\* the profiles that are the slave of some persisted bridge with a UUID
PairedSlaves(st) ==
    { i \in 1..Len(st) :
          \E b \in BridgesWithUuid(st) :
              IsSlaveOf(st[i], st[b].connection.uuid) }

\* C19: find_existing_bridges returns exactly one view per persisted profile
\* of type bridge that has a UUID; the slaves of a view are exactly the
\* profiles not of type bridge, of slave-type bridge, whose master is that
\* bridge's UUID; a slave whose master is no bridge's UUID is in no view and
\* no slave is in two views.
C19_OneViewPerBridge ==
    pc = "found" =>
        /\ Len(bridge_views) = Cardinality(BridgesWithUuid(store))
        /\ \A b \in BridgesWithUuid(store) :
              \E v \in 1..Len(bridge_views) :
                  /\ bridge_views[v].uuid = store[b].connection.uuid
                  /\ bridge_views[v].id = store[b].connection.id
        /\ \A v \in 1..Len(bridge_views) :
              bridge_views[v].slaves
                  = ExpectedSlaves(store, bridge_views[v].uuid)
        /\ SumLen(bridge_views, 1) = Cardinality(PairedSlaves(store))

\* C19 witness: the bridge br0 with its two slaves, listed around it.
C19_Witness ==
    /\ pc = "found"
    /\ Len(store) = 3
    /\ store[1].path = 15 /\ store[2].path = 11 /\ store[3].path = 14
    /\ Len(bridge_views) = 1
    /\ Len(bridge_views[1].slaves) = 2
    /\ bridge_views[1].slaves[1].conn_id = S_wlan0
    /\ bridge_views[1].slaves[2].conn_id = S_slave0

\* C19 witness: a slave whose master is no bridge, and a bridge that names a
\* master itself, beside the bridge br0: two views, neither with a slave.
C19_WitnessOrphan ==
    /\ pc = "found"
    /\ { store[i].path : i \in 1..Len(store) } = {11, 17, 18}
    /\ Len(bridge_views) = 2
    /\ \A v \in 1..2 : bridge_views[v].slaves = <<>>

----------------------------------------------------------------------------
(* Properties of deactivate_connection's scan (under Spec) *)

C20_WitnessNotActive ==
    /\ pc = "done"
    /\ req.command = "deactivate"
    /\ ~req.dry_run
    /\ active0 # <<>>
    /\ ActiveById(req.name) = {}
    /\ calls = <<>>
    /\ out.listed = 1

----------------------------------------------------------------------------
(* Properties of activate_connection (under Spec) *)

\* C21: activate_connection(x) from the activate command: if no persisted
\* profile has identifier or UUID x, no ActivateConnection is issued, the
\* connections are listed and the call returns normally; otherwise, when not
\* a dry run, exactly one ActivateConnection is issued, for the profile
\* find_connection(x) returns (the first match), and a refusal of that call
\* is logged, not retried and not raised.
C21_ActivateOnceOrReport ==
    req.command = "activate" =>
        /\ pc = "done"
        /\ out.exit = None
        /\ store = store0
        /\ IF Matches(store0, req.name) = {} THEN
               /\ calls = <<>>
               /\ active = active0
               /\ out.listed = 1
               /\ "not found to activate" \in out.log
           ELSE IF req.dry_run THEN calls = <<>>
           ELSE
               /\ Len(calls) = 1
               /\ calls[1].op = "ActivateConnection"
               /\ calls[1].arg
                      = <<store0[MinIndex(Matches(store0, req.name))].path>>
               /\ out.listed = 0
               /\ ~calls[1].ok =>
                      /\ "Error activating connection" \in out.log
                      /\ active = active0

\* C21 witness: two profiles are named br0 and the activation of br0, for the
\* one listed first, was refused.
C21_Witness ==
    /\ pc = "done"
    /\ req.command = "activate"
    /\ req.name = S_br0
    /\ Cardinality(Matches(store0, S_br0)) = 2
    /\ calls = <<Call("ActivateConnection", <<store0[1].path>>, FALSE)>>
    /\ "Error activating connection" \in out.log

\* C21 witness of the other case: profiles are persisted, none matches.
C21_WitnessNotFound ==
    /\ pc = "done"
    /\ req.command = "activate"
    /\ ~req.dry_run
    /\ store0 # <<>>
    /\ Matches(store0, req.name) = {}
    /\ out.listed = 1

----------------------------------------------------------------------------
(* Properties of the add command's activation (under Spec) *)

PathsOf(st) == { st[i].path : i \in 1..Len(st) }

\* C22: in every run of the add command (main and shell), whichever call
\* fails, an ActivateConnection is issued only if both profiles were created
\* by add_bridge_connection in that run, and it targets the slave profile
\* created in that run, never a profile that was persisted before.
C22_ActivateOnlyAfterSuccessfulAdd ==
    req.command = "add" =>
        \A i \in Issued("ActivateConnection") :
            /\ BridgeAddSucceeded
            /\ SlaveAddSucceeded
            /\ calls[i].arg[1] \notin PathsOf(store0)
            /\ \E k \in 1..Len(store) :
                  /\ store[k].path = calls[i].arg[1]
                  /\ store[k].connection.id = slave_conn_name_of(req)
                  /\ store[k].connection.master = locals.bridge_uuid

----------------------------------------------------------------------------
(* Properties of the settings written by add_bridge_connection (under Spec) *)

\* C23: after a successful add_bridge_connection with a default VLAN id v in
\* [0,4094], the view find_existing_bridges gives of the new bridge has its
\* vlan-default-pvid setting equal to v.
C23_VlanIdRoundTrip ==
    (AddSucceeded /\ req.vlan_default_pvid # None) =>
        /\ NewBridgeViews # {}
        /\ \A i \in NewBridgeViews :
              find_existing_bridges(store)[i].bridge_settings.vlan_default_pvid
                  = req.vlan_default_pvid

----------------------------------------------------------------------------
(* Frame of add_bridge_connection and delete_connection (under Spec) *)

\* the names the running command works on
TargetNames ==
    IF req.command = "delete" THEN {req.name}
    ELSE IF req.command = "add" /\ req.slave_interface # None
         THEN {req.conn_name, slave_conn_name_of(req)}
    ELSE {}

Unrelated(p) ==
    /\ p.connection.id \notin TargetNames
    /\ p.connection.uuid \notin TargetNames

SucceededDeletes == { i \in Issued("Delete") : calls[i].ok }

\* C24: whatever calls fail, after the add command's add_bridge_connection
\* and after the delete command's delete_connection(x), every profile that
\* was persisted before and whose identifier and UUID both differ from
\* conn_name, from conn_name-port-slave_iface and from x is still persisted
\* with the same settings; each Delete removes at most one profile.
C24_UnrelatedProfilesUntouched ==
    req.command \in {"add", "delete"} =>
        /\ \A i \in 1..Len(store0) :
              Unrelated(store0[i]) =>
                  \E k \in 1..Len(store) : store[k] = store0[i]
        /\ Cardinality(PathsOf(store0) \ PathsOf(store))
              <= Cardinality(SucceededDeletes)

\* C24 witness: the delete command removed the second of two profiles; the
\* first, which shares neither identifier nor UUID with the name, remains.
C24_Witness ==
    /\ pc = "done"
    /\ req.command = "delete"
    /\ Len(store0) = 2
    /\ Unrelated(store0[1])
    /\ calls = <<Call("Delete", <<store0[2].path>>, TRUE)>>
    /\ store = <<store0[1]>>

\* C24 witness for add: the profile Br0 was persisted beside br0; br0 was
\* replaced, the slave submission refused and rolled back, Br0 remains.
C24_WitnessAdd ==
    /\ pc = "add_returned"
    /\ req.command = "add"
    /\ SlaveAddFailed
    /\ Len(store0) = 2
    /\ store0[1].connection.id = S_br0
    /\ store0[2].connection.id = S_Br0
    /\ Cardinality(SucceededDeletes) = 2
    /\ store = <<store0[2]>>

----------------------------------------------------------------------------
(* The slave profile submitted by add_bridge_connection (under Spec) *)

\* the persisted profiles that name the bridge of this run as their master
NewSlaveProfiles ==
    { i \in 1..Len(store) :
          /\ "master" \in DOMAIN store[i].connection
          /\ store[i].connection.master = locals.bridge_uuid }

\* the connection type that fits a device type
ProfileTypeFor(device_type) ==
    IF device_type = TypeEthernet THEN "802-3-ethernet"
    ELSE IF device_type = TypeWifi THEN "802-11-wireless"
    ELSE "generic"

SlaveDevices ==
    { d \in DeviceSet(devices) : d.Interface = req.slave_interface[1] }

\* C25: the slave profile add_bridge_connection has persisted names the
\* bridge submitted in the same run as its master, has slave-type bridge and
\* interface-name slave_iface, and its connection type fits the device type
\* of slave_iface: Ethernet profile for an Ethernet device, Wi-Fi profile for
\* a Wi-Fi device.
C25_SlaveProfileFitsDevice ==
    (req.command = "add" /\ SlaveAddSucceeded) =>
        /\ Cardinality(NewSlaveProfiles) = 1
        /\ \A i \in NewSlaveProfiles :
              LET c == store[i].connection IN
              /\ c.master = locals.bridge_settings.connection.uuid
              /\ c["slave-type"] = "bridge"
              /\ c["interface-name"] = req.slave_interface[1]
              /\ c.id = slave_conn_name_of(req)
              /\ \A d \in SlaveDevices : c.type = ProfileTypeFor(d.DeviceType)

\* the part of C25 that does not depend on the device type
C25_SlaveReferencesBridge ==
    (req.command = "add" /\ SlaveAddSucceeded) =>
        /\ Cardinality(NewSlaveProfiles) = 1
        /\ \A i \in NewSlaveProfiles :
              LET c == store[i].connection IN
              /\ c.master = locals.bridge_settings.connection.uuid
              /\ c["slave-type"] = "bridge"
              /\ c["interface-name"] = req.slave_interface[1]
              /\ \A d \in SlaveDevices :
                    d.DeviceType = TypeEthernet => c.type = "802-3-ethernet"

====
